---- MODULE Spec2Model ----
(***************************************************************************)
(* useStateSync (packages/core/src/index.ts, kept as src/unnamed/part_001) *)
(* as a state machine.                                                     *)
(*                                                                         *)
(* The hook owns a mutable cell  stateRef = {state, callback}  and asks    *)
(* the host (React) to commit every value it writes.  The host side is     *)
(* modelled from the contract of useState / useEffect:                     *)
(*   - setState(v) appends a request to the component's update queue;      *)
(*   - a commit processes the whole queue, the last request wins;          *)
(*   - the effect with deps [state] runs after a commit that changed       *)
(*     state (Object.is), and once after the first render, behind the      *)
(*     mount effect (deps []);                                             *)
(*   - passive effects run some time after their commit, so user code      *)
(*     (layout effects, effects of children, timers) can call the update   *)
(*     function between the first render and the mount effect, and         *)
(*     between a commit and its effect;                                    *)
(*   - pending passive effects are flushed before the next render, so a    *)
(*     commit or an unmount starts only when none is pending;              *)
(*   - setState on an unmounted component is ignored;                      *)
(*   - user code can read, coerce, inspect and try to assign the facade    *)
(*     wherever it can call the update function (FacadeSpec);              *)
(*   - a commit renders the component again, which runs the body of the    *)
(*     hook: useState returns the committed state without calling the      *)
(*     initializer, useMemo with deps [] returns its first result.         *)
(***************************************************************************)
(*                                                                         *)
(* The watch mode of the package's build script (packages/core/build.js)   *)
(* is a second, independent state machine (WatchSpec): the compiler        *)
(* writes dist/index.js, the watcher's events, the two timers and the      *)
(* settling of the minifier interleave freely.                             *)
(***************************************************************************)
EXTENDS Integers, Sequences, FiniteSets, TLC

\* ------------------------------------------------------------------ bounds

\* Update calls in one behaviour; call number i registers callback id i.
MaxUpdates == 3
\* Writes of dist/index.js by the compiler (tsc --watch) in one behaviour of
\* the build script.
MaxCompiles == 2
\* Update calls in one behaviour in which the facade is exercised.
MaxFacadeUpdates == 2
\* Numbers passed directly to the hook and to the update function:
\* 0..MaxVal (the updaters reach larger ones, and null is passed besides).
MaxVal == 0

Values == 0 .. MaxVal
CallIds == 1 .. MaxUpdates

\* Values that are no numbers: null, undefined, and an object (an array, a
\* record), told apart from the numbers and from each other.
Null == -1
Undefined == -2
Obj == -3
IsNumber(v) == v >= 0

\* ------------------------------------------------------------------- state

VARIABLES
    pc,          \* where the host is in the life of the instance
    state,       \* useState's committed value: what the host shows
    firstState,  \* `state` of the first render, closed over by the mount effect
    queue,       \* setState requests the host has not processed yet
    stateRef,    \* the cell: [state |-> latest requested value, callback |-> slot]
    running,     \* id of the deferred callback being executed, or NoCallback
    escaped,     \* an error of a deferred callback reached the host
    initialState, \* the argument of the hook
    initCalls,   \* how often the host has invoked the initializer
    stateObject, \* identity of the facade the latest render returned
    \* history, read by the properties only
    nCalls,      \* update calls so far
    fired,       \* fired[i]: how often the callback of call i was invoked
    last,        \* the most recent update call that returned
    lastThrow,   \* callback argument of the most recent call that threw
    lastStep,    \* the step taken last: a call, the end of a callback, or "host"
    incBase,     \* facade value before the current run of s => s.value + 1
    incCount,    \* length of that run (0: none)
    committedLast, \* the host processed the request of `last`
    observedLast,  \* ... and the callback effect of that commit has started
    obsAfterLast,  \* some run of the callback effect has started since `last`
    followedBy,  \* followedBy[i]: callback argument of the call that followed
                 \* call i (which passed a function) before any run of the
                 \* callback effect started, or "none"
    discarded,   \* the callback in the slot at teardown, or NoCallback
    \* the build script in watch mode (packages/core/build.js)
    distFile,     \* content of dist/index.js
    lastFileHash, \* hash of the content the script has dealt with
    isBuilding,   \* the flag the watch handler tests
    watchTimeout, \* the debounce timer is armed
    initialTimer, \* the timer of the initial build is armed
    events,       \* change events of index.js not delivered yet
    builds,       \* runs of build() awaiting the minifier
    compiles,     \* history: writes by the compiler so far
    buildRuns     \* history: runs of build() started so far

hookVars == <<pc, state, firstState, queue, stateRef, running, escaped,
          initialState, initCalls, stateObject, nCalls,
          fired, last, lastThrow, lastStep, incBase, incCount, committedLast,
          observedLast, obsAfterLast, followedBy, discarded>>

watchVars == <<distFile, lastFileHash, isBuilding, watchTimeout, initialTimer,
               events, builds, compiles, buildRuns>>

vars == <<hookVars, watchVars>>

\* `null` in the callback slot.
NoCallback == 0

\* The first argument of the update function: a direct value or an updater.
\* "inc" is  s => s.value + 1 ; "boom" is an updater that throws.
Updaters == {"inc", "boom"}
NewStates ==
    [kind : {"value"}, v : Values \cup {Null}] \cup [kind : {"updater"}, f : Updaters]

\* The argument of the hook: a literal, nothing, or an initializer function
\* (v is what it returns).
InitialStates ==
    [kind : {"literal"}, v : Values \cup {Null, Obj}]
        \cup [kind : {"absent"}, v : {Undefined}]
        \cup [kind : {"initializer"}, v : Values]

\* The facade of the first render.
FirstFacade == 1

\* The second argument: a function, null, undefined (absent), or something
\* else that is not callable (a number, an object).
CallbackKinds == {"fn", "null", "undefined", "other"}

\* `last` before any call.  at is where the host was at the call, saw the
\* facade value handed to the updater (0 for a direct value), changes whether
\* the resolved value differed from the committed state at the call, after
\* the callback this call replaced before any run of the callback effect
\* (NoCallback: none).
NoCall == [id |-> 0, arg |-> [kind |-> "value", v |-> 0], cb |-> "undefined",
           at |-> "none", saw |-> 0, changes |-> FALSE, after |-> NoCallback]

\* ------------------------------------------------------- the hook's pieces

\* The initializer is evaluated by the hook at every render.
UseStateEager(init, mounted, current) ==
    [value |-> IF mounted THEN current ELSE init.v,
     calls |-> IF init.kind = "initializer" THEN 1 ELSE 0]

\* useState(initialState): the first render takes the literal, or calls the
\* initializer once; a later render returns the committed state and calls
\* nothing.
UseState(init, mounted, current) ==
    IF mounted THEN [value |-> current, calls |-> 0]
    ELSE [value |-> init.v,
          calls |-> IF init.kind = "initializer" THEN 1 ELSE 0]

\* A new Proxy at every render.
UseMemoFacadeFresh(cached) == cached + 1

\* useMemo(() => new Proxy(...), []): the first one, at every render.
UseMemoFacade(cached) == cached

isFunction(newState) == newState.kind = "updater"

isValidCallback(callback) == callback = "fn"

\* Proxy get for `value` (and any key that is no coercion hook).
stateObject_value == stateRef.state

\* What an updater returns when handed the facade.
ApplyUpdater(f, facadeValue) ==
    IF f = "inc" THEN [threw |-> FALSE, value |-> facadeValue + 1]
                 ELSE [threw |-> TRUE, value |-> facadeValue]

\* A closure over the rendered `state` instead of the facade.
ActualNewStateStale(newState) ==
    IF isFunction(newState) THEN ApplyUpdater(newState.f, state)
                            ELSE [threw |-> FALSE, value |-> newState.v]

\* actualNewState
ActualNewState(newState) ==
    IF isFunction(newState) THEN ApplyUpdater(newState.f, stateObject_value)
                            ELSE [threw |-> FALSE, value |-> newState.v]

\* The write is lost.
RefSetStateLost(cur, newState) == cur

\* null is stored as undefined.
RefSetStateNullish(cur, newState) ==
    IF newState = Null THEN Undefined ELSE newState

\* stateRef.current.setState
RefSetState(cur, newState) == newState

\* A missing callback leaves the registered one in place.
NextCallbackKeep(cur, callback, id) ==
    IF isValidCallback(callback) THEN id ELSE cur

\* The slot after the callback branch of the update function.
NextCallback(cur, callback, id) ==
    IF isValidCallback(callback) THEN id
    ELSE IF callback = "null" \/ callback = "undefined" THEN NoCallback
    ELSE cur

\* The callback is registered before the value is resolved.
SetStateEffectBodyCallbackFirst(newState, callback, id) ==
    LET r    == ActualNewState(newState)
        slot == NextCallback(stateRef.callback, callback, id)
    IN  IF r.threw
        THEN [threw |-> TRUE, requests |-> <<>>,
              stateRef |-> [stateRef EXCEPT !.callback = slot]]
        ELSE [threw |-> FALSE, requests |-> <<r.value>>,
              stateRef |-> [state |-> RefSetState(stateRef.state, r.value),
                            callback |-> slot]]

\* A torn-down instance ignores the call.
SetStateEffectBodyMountedOnly(newState, callback, id) ==
    LET r == ActualNewState(newState) IN
    IF r.threw
    THEN [threw |-> TRUE, requests |-> <<>>, stateRef |-> stateRef]
    ELSE [threw |-> FALSE, requests |-> <<r.value>>,
          stateRef |-> IF pc = "dead" THEN stateRef
                       ELSE [state |-> RefSetState(stateRef.state, r.value),
                             callback |-> NextCallback(stateRef.callback,
                                                       callback, id)]]

\* The statements of the update function in their order: resolve (an
\* exception ends the call here), write the cell, set the slot, setState.
SetStateEffectBody(newState, callback, id) ==
    LET r == ActualNewState(newState) IN
    IF r.threw
    THEN [threw |-> TRUE, requests |-> <<>>, stateRef |-> stateRef]
    ELSE [threw |-> FALSE, requests |-> <<r.value>>,
          stateRef |-> [state |-> RefSetState(stateRef.state, r.value),
                        callback |-> NextCallback(stateRef.callback, callback, id)]]

\* Keys read on the facade: "value", a key of no meaning, and the three
\* coercion hooks (valueOf, Symbol.toPrimitive, toString).
HookProps == {"valueOf", "toPrimitive", "toString"}
PlainProps == {"value", "anyOther"}

\* The facade keeps the value it was created with.
ProxyGetSnapshot(proxy, prop) == firstState

\* The get trap for a key that is no coercion hook: every facade reads the
\* one cell of the instance, at the time of the access.
ProxyGet(proxy, prop) == stateRef.state

\* Number(x) of a value: a number is itself, null is 0, undefined and the
\* array [1, 2, 3] are NaN.
ToNumber(v) ==
    IF IsNumber(v) THEN [threw |-> FALSE, nan |-> FALSE, n |-> v]
    ELSE IF v = Null THEN [threw |-> FALSE, nan |-> FALSE, n |-> 0]
    ELSE [threw |-> FALSE, nan |-> TRUE, n |-> 0]

\* String(x) of a value; the array [1, 2, 3] is "1,2,3".
ToStringOf(v) ==
    IF IsNumber(v) THEN [threw |-> FALSE, s |-> ToString(v)]
    ELSE IF v = Null THEN [threw |-> FALSE, s |-> "null"]
    ELSE IF v = Undefined THEN [threw |-> FALSE, s |-> "undefined"]
    ELSE [threw |-> FALSE, s |-> "1,2,3"]

\* The functions the get trap returns for valueOf and Symbol.toPrimitive,
\* called: the value of the cell, unconverted.
HookValueOf == stateRef.state

\* The function the get trap returns for toString, called.
HookToString == ToStringOf(stateRef.state)

\* ToPrimitive of the facade: the language finds the Symbol.toPrimitive
\* hook first, calls it, and throws a TypeError when it returns an object.
FacadeToPrimitive ==
    IF HookValueOf = Obj THEN [threw |-> TRUE, v |-> Undefined]
    ELSE [threw |-> FALSE, v |-> HookValueOf]

\* Number(facade)
NumberOfFacade ==
    IF FacadeToPrimitive.threw THEN [threw |-> TRUE, nan |-> FALSE, n |-> 0]
    ELSE ToNumber(FacadeToPrimitive.v)

\* String(facade)
StringOfFacade ==
    IF FacadeToPrimitive.threw THEN [threw |-> TRUE, s |-> "TypeError"]
    ELSE ToStringOf(FacadeToPrimitive.v)

\* Every key tried on the facade; "toPrimitive" is the symbol, the others
\* are strings.
AllProps == PlainProps \cup HookProps
IsStringProp(prop) == prop # "toPrimitive"

\* The has trap.
ProxyHas(proxy, prop) == TRUE

\* The keys of the current value are reported.
ProxyOwnKeysOfValue(proxy) ==
    IF stateRef.state = Obj THEN <<"0", "1", "2", "length">> ELSE <<>>

\* The ownKeys trap.
ProxyOwnKeys(proxy) == <<"value">>

\* The getOwnPropertyDescriptor trap: an enumerable, configurable accessor
\* with a getter and no setter for "value" and every string key, undefined
\* for a symbol.
ProxyGetOwnPropertyDescriptor(proxy, prop) ==
    IF prop = "value" \/ IsStringProp(prop)
    THEN [defined |-> TRUE, enumerable |-> TRUE, configurable |-> TRUE,
          setter |-> FALSE, get |-> stateRef.state]
    ELSE [defined |-> FALSE, enumerable |-> FALSE, configurable |-> FALSE,
          setter |-> FALSE, get |-> Undefined]

\* Object.keys(facade): the own keys whose descriptor is enumerable.
ObjectKeys(proxy) ==
    LET enumerable(k) == /\ ProxyGetOwnPropertyDescriptor(proxy, k).defined
                         /\ ProxyGetOwnPropertyDescriptor(proxy, k).enumerable
    IN  SelectSeq(ProxyOwnKeys(proxy), enumerable)

\* A set trap that hands the value to the update function.
ProxySetWrites(proxy, prop, v) ==
    [ok |-> TRUE, stateRef |-> [stateRef EXCEPT !.state = v],
     requests |-> <<v>>]

\* facade[prop] = v. There is no set trap: the assignment goes to the empty
\* target with the facade as receiver, finds the accessor without setter
\* that the descriptor trap reports for a string key and fails; for a
\* symbol it defines the property on the target, which no trap reads.
ProxySet(proxy, prop, v) ==
    [ok |-> ~ProxyGetOwnPropertyDescriptor(proxy, prop).defined,
     stateRef |-> stateRef, requests |-> <<>>]

\* What user code does with the facade.
FacadeOps == {"get", "coerce", "has", "ownKeys", "getOwnPropertyDescriptor", "set"}

\* The cell and the commit requests after an operation on the facade: the
\* traps and the hooks only read.
FacadeEffect(op, prop, v) ==
    IF op = "set" THEN ProxySet(stateObject, prop, v)
    ELSE [ok |-> TRUE, stateRef |-> stateRef, requests |-> <<>>]

\* Teardown leaves the slot alone.
MountCleanupKeep(cur) == cur

\* The cleanup of the mount effect.
MountCleanup(cur) == NoCallback

\* What a deferred callback does: it returns, or throws an Error, a string,
\* or an object that cannot be converted to a string (Object.create(null)).
CallbackOutcomes == {"returned", "Error", "string", "nullProtoObject"}

\* errorMessage in the catch block: error.message of an Error, String(error)
\* of anything else, which throws a TypeError for an object with no
\* toString and no valueOf.
ErrorMessageThrows(error) ==
    IF error = "Error" THEN FALSE ELSE error = "nullProtoObject"

\* try / catch / finally around the callback: the slot is cleared on every
\* path; an exception of the catch block itself leaves the effect.
AfterCallback(cur, outcome) ==
    [callback |-> NoCallback,
     escaped  |-> (outcome # "returned" /\ ErrorMessageThrows(outcome))]

\* ------------------------------------------------------------------- Init

\* -------------------------------------------- the build script's pieces

\* dist/index.js: missing, or version ver of the compiler's output, as
\* written by the compiler or minified.
NoFile == [ver |-> 0, min |-> FALSE]

\* A hash: null, or the md5 of a content (different contents, different
\* hashes).
NullHash == [null |-> TRUE, of |-> NoFile]

\* getFileHash(filePath)
getFileHash(content) ==
    IF content = NoFile THEN NullHash ELSE [null |-> FALSE, of |-> content]

\* minify(code): the minified form of the same version; minified code is
\* taken to minify to itself.
Minify(code) == [code EXCEPT !.min = TRUE]

\* Watch mode has started: no file yet, both variables as declared, the
\* timer of the initial build armed, the watcher installed.
WatchStarted ==
    /\ distFile = NoFile
    /\ lastFileHash = NullHash
    /\ isBuilding = FALSE
    /\ watchTimeout = FALSE
    /\ initialTimer = TRUE
    /\ events = 0
    /\ builds = <<>>
    /\ compiles = 0
    /\ buildRuns = 0

\* ------------------------------------------------------------ the hook

Init ==
    /\ WatchStarted
    /\ pc = "render"
    /\ initialState \in InitialStates
    /\ state = UseState(initialState, FALSE, Undefined).value
    /\ initCalls = UseState(initialState, FALSE, Undefined).calls
    /\ stateObject = FirstFacade
    /\ firstState = state
    /\ queue = <<>>
    /\ stateRef = [state |-> state, callback |-> NoCallback]
    /\ running = NoCallback
    /\ escaped = FALSE
    /\ nCalls = 0
    /\ fired = [i \in CallIds |-> 0]
    /\ last = NoCall
    /\ lastThrow = "none"
    /\ lastStep = "host"
    /\ incBase = 0
    /\ incCount = 0
    /\ committedLast = FALSE
    /\ observedLast = FALSE
    /\ obsAfterLast = FALSE
    /\ followedBy = [i \in CallIds |-> "none"]
    /\ discarded = NoCallback

\* ---------------------------------------------------------------- actions

\* User code runs, and can call the update function: before the mount
\* effect, between commits, between a commit and its effect, inside a
\* deferred callback, and after teardown through a retained reference.
CanCall == pc \in {"render", "idle", "committed", "firing", "dead"}

\* setStateEffect(newState, callback)
SetStateEffect(newState, callback) ==
    LET id  == nCalls + 1
        out == SetStateEffectBody(newState, callback, id)
        inc == isFunction(newState) /\ newState.f = "inc"
        replaces == isValidCallback(last.cb) /\ ~obsAfterLast
    IN
    /\ CanCall
    /\ nCalls < MaxUpdates
    \* s => s.value + 1 is passed on a number only
    /\ inc => IsNumber(stateObject_value)
    /\ stateRef' = out.stateRef
    /\ queue' = IF pc = "dead" THEN queue ELSE queue \o out.requests
    /\ nCalls' = id
    /\ lastStep' = IF out.threw THEN "updateThrew" ELSE "update"
    /\ lastThrow' = IF out.threw THEN callback ELSE lastThrow
    /\ last' = IF out.threw THEN last
               ELSE [id |-> id, arg |-> newState, cb |-> callback, at |-> pc,
                     saw |-> IF isFunction(newState) THEN stateObject_value ELSE 0,
                     changes |-> (out.requests[1] # state),
                     after |-> IF replaces THEN last.id ELSE NoCallback]
    /\ incBase' = IF out.threw \/ ~inc THEN 0
                  ELSE IF incCount = 0 THEN stateObject_value ELSE incBase
    /\ incCount' = IF out.threw \/ ~inc THEN 0 ELSE incCount + 1
    /\ committedLast' = (out.threw /\ committedLast)
    /\ observedLast' = (out.threw /\ observedLast)
    /\ obsAfterLast' = (out.threw /\ obsAfterLast)
    /\ followedBy' = IF ~out.threw /\ replaces
                     THEN [followedBy EXCEPT ![last.id] = callback]
                     ELSE followedBy
    /\ UNCHANGED <<pc, state, firstState, running, escaped, initialState,
                   initCalls, stateObject, fired, discarded>>
    /\ UNCHANGED watchVars

\* The mount effect (deps []), first of the passive effects of the mount.
MountEffect ==
    /\ pc = "render"
    /\ pc' = "mountflush"
    /\ stateRef' = [stateRef EXCEPT !.state = firstState]
    /\ lastStep' = "host"
    /\ incBase' = 0
    /\ incCount' = 0
    /\ UNCHANGED <<state, firstState, queue, running, escaped, initialState,
                   initCalls, stateObject, nCalls, fired, last, lastThrow,
                   committedLast, observedLast, obsAfterLast, followedBy,
                   discarded>>
    /\ UNCHANGED watchVars

\* The callback effect (deps [state]) up to the call of the callback.
CallbackEffect ==
    LET callback == stateRef.callback IN
    /\ pc \in {"mountflush", "committed"}
    /\ IF callback # NoCallback
       THEN /\ pc' = "firing"
            /\ running' = callback
            /\ fired' = [fired EXCEPT ![callback] = @ + 1]
       ELSE /\ pc' = "idle"
            /\ UNCHANGED <<running, fired>>
    /\ UNCHANGED watchVars
    /\ lastStep' = "host"
    /\ incBase' = 0
    /\ incCount' = 0
    /\ observedLast' = committedLast
    /\ obsAfterLast' = TRUE
    /\ UNCHANGED <<state, firstState, queue, stateRef, escaped, initialState,
                   initCalls, stateObject, nCalls, last, lastThrow,
                   committedLast, followedBy, discarded>>

\* The callback returns or throws: catch and finally.  An error that leaves
\* the effect makes the host unmount the instance (error boundary or root).
CallbackDone(outcome) ==
    LET after == AfterCallback(stateRef.callback, outcome) IN
    /\ pc = "firing"
    /\ pc' = IF after.escaped THEN "dead" ELSE "idle"
    /\ queue' = IF after.escaped THEN <<>> ELSE queue
    /\ running' = NoCallback
    /\ stateRef' = [stateRef EXCEPT !.callback = after.callback]
    /\ escaped' = (escaped \/ after.escaped)
    /\ lastStep' = IF outcome = "returned" THEN "callbackReturned"
                                           ELSE "callbackThrew"
    /\ incBase' = 0
    /\ incCount' = 0
    /\ UNCHANGED <<state, firstState, initialState, initCalls, stateObject,
                   nCalls, fired, last, lastThrow, committedLast,
                   observedLast, obsAfterLast, followedBy, discarded>>
    /\ UNCHANGED watchVars

\* The host processes the update queue and renders the component again,
\* which runs the body of the hook: the last request wins, and a result
\* equal to the committed state changes nothing and runs no effect.
Commit ==
    LET render == UseState(initialState, TRUE, queue[Len(queue)]) IN
    /\ pc = "idle"
    /\ queue # <<>>
    /\ queue' = <<>>
    /\ state' = render.value
    /\ initCalls' = initCalls + render.calls
    /\ stateObject' = UseMemoFacade(stateObject)
    /\ pc' = IF render.value # state THEN "committed" ELSE "idle"
    /\ lastStep' = "host"
    /\ incBase' = 0
    /\ incCount' = 0
    /\ committedLast' = TRUE
    /\ UNCHANGED <<firstState, stateRef, running, escaped, initialState,
                   nCalls, fired, last, lastThrow, observedLast, obsAfterLast,
                   followedBy, discarded>>
    /\ UNCHANGED watchVars

\* Teardown: the cleanup of the mount effect; the host drops the instance
\* and its queue.
Unmount ==
    /\ pc = "idle"
    /\ pc' = "dead"
    /\ queue' = <<>>
    /\ stateRef' = [stateRef EXCEPT !.callback = MountCleanup(stateRef.callback)]
    /\ discarded' = stateRef.callback
    /\ lastStep' = "host"
    /\ incBase' = 0
    /\ incCount' = 0
    /\ UNCHANGED <<state, firstState, running, escaped, initialState,
                   initCalls, stateObject, nCalls, fired, last, lastThrow,
                   committedLast, observedLast, obsAfterLast, followedBy>>
    /\ UNCHANGED watchVars

Next ==
    \/ \E newState \in NewStates, callback \in CallbackKinds :
          SetStateEffect(newState, callback)
    \/ MountEffect
    \/ CallbackEffect
    \/ \E outcome \in CallbackOutcomes : CallbackDone(outcome)
    \/ Commit
    \/ Unmount

Spec == Init /\ [][Next]_vars

\* ------------------------------------------------- the facade in use

\* User code performs an operation on the facade (lastStep names it).
FacadeAccess(op, prop, v) ==
    LET out == FacadeEffect(op, prop, v) IN
    /\ CanCall
    /\ stateRef' = out.stateRef
    /\ queue' = IF pc = "dead" THEN queue ELSE queue \o out.requests
    /\ lastStep' = op
    /\ UNCHANGED <<pc, state, firstState, running, escaped, initialState,
                   initCalls, stateObject, nCalls, fired, last, lastThrow,
                   incBase, incCount, committedLast, observedLast,
                   obsAfterLast, followedBy, discarded>>
    /\ UNCHANGED watchVars

\* The arguments of the update function while the facade is exercised:
\* numbers, null, the array, and s => s.value + 1.
FacadeNewStates ==
    [kind : {"value"}, v : Values \cup {Null, Obj}]
        \cup [kind : {"updater"}, f : {"inc"}]

\* The operations with their arguments: a key where one is taken, a value
\* for an assignment.
FacadeCalls ==
    [op : {"get", "has", "getOwnPropertyDescriptor"}, prop : AllProps,
     v : {Undefined}]
        \cup [op : {"coerce", "ownKeys"}, prop : {"value"}, v : {Undefined}]
        \cup [op : {"set"}, prop : AllProps, v : Values \cup {Null}]

\* An update call, while the facade is exercised.
FacadeUpdate(newState, callback) ==
    /\ nCalls < MaxFacadeUpdates
    /\ SetStateEffect(newState, callback)

\* The hook's steps, with operations on the facade between them.
FacadeNext ==
    \/ \E newState \in FacadeNewStates, callback \in {"fn", "undefined"} :
          FacadeUpdate(newState, callback)
    \/ MountEffect
    \/ CallbackEffect
    \/ \E outcome \in {"returned"} : CallbackDone(outcome)
    \/ Commit
    \/ Unmount
    \/ \E call \in FacadeCalls : FacadeAccess(call.op, call.prop, call.v)

FacadeSpec == Init /\ [][FacadeNext]_vars

\* --------------------------------------------- the build script, watch mode

\* A run of build() from its start to the await of the minifier: nothing
\* happens without the file, otherwise the code is read.
StartBuild(origin) ==
    IF distFile = NoFile THEN builds
    ELSE Append(builds, [code |-> distFile, origin |-> origin])

\* Positions in the list of builds in progress: every run is started by a
\* write of the compiler or by the initial timer, or follows another run.
BuildSlots == 1 .. MaxCompiles + 2

\* The builds without the i-th.
Without(i) == [j \in 1 .. Len(builds) - 1 |-> IF j < i THEN builds[j] ELSE builds[j + 1]]

\* The compiler writes a new version of dist/index.js; the watcher gets a
\* change event (one per write).
TscWrite ==
    /\ compiles < MaxCompiles
    /\ compiles' = compiles + 1
    /\ distFile' = [ver |-> compiles + 1, min |-> FALSE]
    /\ events' = events + 1
    /\ UNCHANGED <<lastFileHash, isBuilding, watchTimeout, initialTimer,
                   builds, buildRuns>>
    /\ UNCHANGED hookVars

\* The callback of setTimeout(..., 1000): the initial build.
InitialBuild ==
    /\ initialTimer
    /\ initialTimer' = FALSE
    /\ IF distFile # NoFile
       THEN /\ lastFileHash' = getFileHash(distFile)
            /\ builds' = StartBuild("initial")
            /\ buildRuns' = buildRuns + 1
       ELSE UNCHANGED <<lastFileHash, builds, buildRuns>>
    /\ UNCHANGED <<distFile, isBuilding, watchTimeout, events, compiles>>
    /\ UNCHANGED hookVars

\* The fs.watch handler for a change event of index.js: unless a build is
\* flagged, the debounce timer is armed anew.
WatchEvent ==
    /\ events > 0
    /\ events' = events - 1
    /\ watchTimeout' = IF ~isBuilding THEN TRUE ELSE watchTimeout
    /\ UNCHANGED <<distFile, lastFileHash, isBuilding, initialTimer, builds,
                   compiles, buildRuns>>
    /\ UNCHANGED hookVars

\* The callback of the debounce timer (300 ms).
DebounceFire ==
    LET currentHash == getFileHash(distFile) IN
    /\ watchTimeout
    /\ watchTimeout' = FALSE
    /\ IF ~currentHash.null /\ currentHash # lastFileHash
       THEN /\ lastFileHash' = currentHash
            /\ isBuilding' = TRUE
            /\ builds' = StartBuild("watch")
            /\ buildRuns' = buildRuns + 1
       ELSE UNCHANGED <<lastFileHash, isBuilding, builds, buildRuns>>
    /\ UNCHANGED <<distFile, initialTimer, events, compiles>>
    /\ UNCHANGED hookVars

\* The minifier of the i-th build settles. If it succeeded, build() writes
\* the minified code over dist/index.js (a change event for the watcher)
\* and returns; the then/catch of a build started by the watcher follow in
\* the same turn, the initial build has a catch only.
BuildDone(i, ok) ==
    LET b       == builds[i]
        written == IF ok THEN Minify(b.code) ELSE distFile
    IN
    /\ i \in 1 .. Len(builds)
    /\ builds' = Without(i)
    /\ distFile' = written
    /\ events' = IF ok THEN events + 1 ELSE events
    /\ IF b.origin = "watch"
       THEN /\ lastFileHash' = IF ok THEN getFileHash(written) ELSE lastFileHash
            /\ isBuilding' = FALSE
       ELSE UNCHANGED <<lastFileHash, isBuilding>>
    /\ UNCHANGED <<watchTimeout, initialTimer, compiles, buildRuns>>
    /\ UNCHANGED hookVars

\* The script runs on its own: the hook's variables stay as one instance
\* created without an argument leaves them.
WatchInit ==
    /\ Init
    /\ initialState.kind = "absent"

WatchNext ==
    \/ TscWrite
    \/ InitialBuild
    \/ WatchEvent
    \/ DebounceFire
    \/ \E i \in BuildSlots, ok \in BOOLEAN : BuildDone(i, ok)

WatchSpec == WatchInit /\ [][WatchNext]_vars

\* ------------------------------------------------------------- properties

\* The value an update call resolves to, from its argument alone.
Expected(call) ==
    IF call.arg.kind = "value" THEN call.arg.v ELSE call.saw + 1

\* C1 Read-after-write: right after an update call has returned, before the
\* host takes any step, the facade reads the value that call resolved to,
\* whatever the host has committed.
ReadAfterWrite ==
    lastStep = "update" => stateObject_value = Expected(last)

\* Three calls in a row without a commit, the facade ahead of the host.
ReadAfterWriteWitness ==
    /\ lastStep = "update"
    /\ Len(queue) = 3
    /\ stateObject_value = Expected(last)
    /\ stateObject_value # state
    /\ stateObject_value # queue[2]

\* C2 Updater sees latest value: after k successive calls with the updater
\* s => s.value + 1 and no host step in between, starting from a facade
\* value n, the facade reads n + k.
UpdaterSeesLatest ==
    incCount > 0 => stateObject_value = incBase + incCount

\* Two increments in a row on a value the host has not committed.
UpdaterSeesLatestWitness ==
    /\ incCount = 2
    /\ incBase # state
    /\ stateObject_value = incBase + 2

\* C3 Callback fires exactly once: no callback is invoked twice, and once
\* the callback effect has run for the commit of the most recent call, a
\* call that passed a function and a value different from the committed
\* one, that function has been invoked once.
CallbackFiresExactlyOnce ==
    /\ \A i \in CallIds : fired[i] <= 1
    /\ (isValidCallback(last.cb) /\ last.changes /\ observedLast)
          => fired[last.id] = 1

\* C4 Callback observes the latest value: when a deferred callback starts
\* to run, the facade reads the value resolved by the most recent update
\* call.
CallbackSeesLatest ==
    (pc = "firing" /\ lastStep = "host") => stateObject_value = Expected(last)

\* C5 Last-callback-wins: when a call that passed a function follows,
\* before any run of the callback effect, a call that passed a function,
\* the earlier function is never invoked, and the later one has been invoked
\* once when the next run of the callback effect has started (no call in
\* between).
LastCallbackWins ==
    /\ \A i \in CallIds : followedBy[i] = "fn" => fired[i] = 0
    /\ (last.after # NoCallback /\ isValidCallback(last.cb) /\ obsAfterLast)
          => fired[last.id] = 1

\* C6 An update without callback cancels the pending one: a call whose
\* callback argument is absent or null returns with the slot empty, and a
\* callback whose call was followed by such a call before any run of the
\* callback effect is never invoked.
NoCallbackCancels ==
    /\ (lastStep = "update" /\ last.cb \in {"null", "undefined"})
          => stateRef.callback = NoCallback
    /\ \A i \in CallIds :
          followedBy[i] \in {"null", "undefined"} => fired[i] = 0

\* A cancelled callback, and the commit of the cancelling call observed.
NoCallbackCancelsWitness ==
    /\ last.after # NoCallback
    /\ last.cb \in {"null", "undefined"}
    /\ observedLast
    /\ pc = "idle"
    /\ fired[last.after] = 0

\* C7 Teardown discards the pending callback: right after teardown the slot
\* is empty, and the callback that was in it is never invoked.
TeardownDiscards ==
    /\ (pc = "dead" /\ lastStep = "host") => stateRef.callback = NoCallback
    /\ discarded # NoCallback => fired[discarded] = 0

\* Teardown with a callback waiting for its commit.
TeardownDiscardsWitness ==
    /\ pc = "dead"
    /\ lastStep = "host"
    /\ discarded # NoCallback
    /\ discarded = last.id
    /\ ~committedLast

\* C8 Callback failure is contained: no error of a deferred callback reaches
\* the host, and the slot is empty when the firing step has finished,
\* whether the callback threw or returned.
CallbackFailureContained ==
    /\ ~escaped
    /\ (lastStep \in {"callbackThrew", "callbackReturned"}
          => stateRef.callback = NoCallback)

\* C9 Updater failure is fail-fast and leaves no trace: a call with a
\* throwing updater never returns normally, and the call changes neither the
\* cell's value nor the slot, and requests no commit.
UpdaterFailureNoTrace ==
    /\ [](isFunction(last.arg) => last.arg.f # "boom")
    /\ [][(nCalls' # nCalls /\ lastStep' = "updateThrew")
            => (stateRef' = stateRef /\ queue' = queue)]_vars

\* A call with a throwing updater and a function as callback, the slot
\* still empty.
UpdaterFailureNoTraceWitness ==
    /\ lastStep = "updateThrew"
    /\ lastThrow = "fn"
    /\ stateRef.callback = NoCallback

\* C10 The host eventually reflects the latest request: on a live instance
\* whose mount effects have run, with nothing in the queue, the committed
\* value is the value the facade reads.
HostReflectsLatest ==
    (pc \in {"idle", "committed", "firing"} /\ queue = <<>>)
        => state = stateObject_value

\* C11 Initialisation: as long as no update call was made, the facade reads
\* the literal initial value, the result of the initializer when one was
\* given, and undefined when nothing was given; and the initializer has
\* been invoked once, whatever renders and updates followed (never, when
\* there is none).
InitialisedOnce ==
    /\ nCalls = 0 => stateObject_value = initialState.v
    /\ initialState.kind = "absent" => initialState.v = Undefined
    /\ initCalls = (IF initialState.kind = "initializer" THEN 1 ELSE 0)

\* An instance with an initializer, all its updates made, committed and
\* rendered again.
InitialisedOnceWitness ==
    /\ initialState.kind = "initializer"
    /\ initCalls = 1
    /\ nCalls = MaxUpdates
    /\ pc = "idle"
    /\ queue = <<>>
    /\ state # firstState

\* C12 null is an ordinary value: right after update(null) the facade reads
\* null, not undefined; an instance created with null reads null and one
\* created with nothing reads undefined, until the first update call; and
\* a direct value, null included, is read back as it was passed.
NullIsAValue ==
    /\ (lastStep = "update" /\ last.arg.kind = "value" /\ last.arg.v = Null)
          => (stateObject_value = Null /\ stateObject_value # Undefined)
    /\ (nCalls = 0 /\ initialState.kind = "literal" /\ initialState.v = Null)
          => stateObject_value = Null
    /\ (nCalls = 0 /\ initialState.kind = "absent")
          => stateObject_value = Undefined
    /\ (lastStep = "update" /\ last.arg.kind = "value")
          => stateObject_value = last.arg.v

\* value -> null -> value on an instance created with null, the third call
\* just returned.
NullIsAValueWitness ==
    /\ initialState.v = Null
    /\ lastStep = "update"
    /\ queue = <<0, Null, 0>>
    /\ stateObject_value = 0

\* C13 Coercion equivalence: Number(facade) and String(facade), and the
\* valueOf and toString hooks called by name, give what Number and String
\* give for the value read through the key "value".
CoercionEquivalence ==
    /\ NumberOfFacade = ToNumber(ProxyGet(stateObject, "value"))
    /\ StringOfFacade = ToStringOf(ProxyGet(stateObject, "value"))
    /\ HookToString = ToStringOf(ProxyGet(stateObject, "value"))
    /\ ToNumber(HookValueOf) = ToNumber(ProxyGet(stateObject, "value"))

\* C14 Lazy, stable facade: every render returns the facade of the first
\* render, and that facade reads, for "value" and for any other key that is
\* no coercion hook, the cell as it is at the access: right after an update
\* call, the value the call resolved to.
StableFacade ==
    /\ stateObject = FirstFacade
    /\ \A prop \in PlainProps :
          /\ ProxyGet(FirstFacade, prop) = stateRef.state
          /\ lastStep = "update" => ProxyGet(FirstFacade, prop) = Expected(last)

\* A commit has rendered the component again, and an update call made
\* after it is read through the first facade.
StableFacadeWitness ==
    /\ state # firstState
    /\ lastStep = "update"
    /\ committedLast = FALSE
    /\ ProxyGet(FirstFacade, "anyOther") # state
    /\ ProxyGet(FirstFacade, "anyOther") # firstState

\* C15 The cell is written by the update operation only: a step that
\* changes the value read through the facade is an update call that
\* returned.
CellWrittenByUpdateOnly ==
    [][stateObject_value' # stateObject_value => lastStep' = "update"]_vars

\* C16 A callback never fires ahead of its own commit: no callback is
\* invoked by an update call, and when the callback of the most recent call
\* is invoked, the host has processed the request of that call.
CallbackAfterOwnCommit ==
    /\ []((pc = "firing" /\ running = last.id) => committedLast)
    /\ [][nCalls' # nCalls => fired' = fired]_vars

\* C17 A same-value update still fires its callback: when the host has
\* processed the request of the most recent call, a call that passed a
\* function and the value the host held already, and has nothing left to
\* do, that function has been invoked once.
SameValueCallbackFires ==
    (/\ isValidCallback(last.cb)
     /\ ~last.changes
     /\ committedLast
     /\ pc = "idle"
     /\ queue = <<>>)
        => fired[last.id] = 1

\* C18 An update issued from inside a callback keeps its own callback: once
\* the callback effect has run for the commit of the most recent call, a
\* call made by a running callback, with a function and a value different
\* from the committed one, that function has been invoked once.
NestedCallbackFires ==
    (/\ last.at = "firing"
     /\ isValidCallback(last.cb)
     /\ last.changes
     /\ observedLast)
        => fired[last.id] = 1

\* C19 Only the most recent request's callback can run: when an update call
\* returns, the slot holds its callback if it passed a function and is
\* empty otherwise, and a callback that starts to run is the one of the
\* most recent call that returned.
OnlyLatestCallback ==
    /\ lastStep = "update"
          => stateRef.callback =
                (IF isValidCallback(last.cb) THEN last.id ELSE NoCallback)
    /\ (pc = "firing" /\ lastStep = "host") => running = last.id

\* C20 No fire after teardown: on a torn-down instance no step invokes a
\* callback and the instance stays torn down, and right after an update
\* call made on it the facade reads the value the call resolved to.
NoFireAfterTeardown ==
    /\ [][pc = "dead" => (fired' = fired /\ pc' = "dead")]_vars
    /\ []((pc = "dead" /\ lastStep = "update")
            => stateObject_value = Expected(last))

\* An update call with a function as callback on a torn-down instance: the
\* function sits in the slot, not invoked, and the facade is ahead of the
\* last committed value.
NoFireAfterTeardownWitness ==
    /\ pc = "dead"
    /\ lastStep = "update"
    /\ last.at = "dead"
    /\ stateRef.callback = last.id
    /\ fired[last.id] = 0
    /\ stateObject_value # state

\* C21 The facade has no write path: an operation on the facade (reading a
\* key, coercion, has, key enumeration, descriptor lookup, an attempted
\* assignment) changes neither the cell's value nor the slot, and requests
\* no commit.
FacadeHasNoWritePath ==
    [][lastStep' \in FacadeOps => (stateRef' = stateRef /\ queue' = queue)]_vars

\* An assignment to facade.value was attempted while a callback and a
\* request were waiting for the host, the facade ahead of the host.
FacadeHasNoWritePathWitness ==
    /\ lastStep = "set"
    /\ stateRef.callback # NoCallback
    /\ queue # <<>>
    /\ stateObject_value # state
    /\ stateObject_value = Expected(last)

\* C22 Permissive has, narrow enumeration: in every state the facade
\* answers true to the has-check of every key, and its key enumeration is
\* the single key "value", whatever the current value is.
PermissiveHasNarrowKeys ==
    /\ \A prop \in AllProps : ProxyHas(stateObject, prop)
    /\ ProxyOwnKeys(stateObject) = <<"value">>
    /\ ObjectKeys(stateObject) = <<"value">>

\* The keys were enumerated with the array written into the cell by an
\* update call, after a number.
PermissiveHasNarrowKeysWitness ==
    /\ lastStep = "ownKeys"
    /\ stateRef.state = Obj
    /\ IsNumber(firstState)
    /\ ObjectKeys(stateObject) = <<"value">>

\* Nothing is left for the build script to do until the compiler writes.
WatchQuiescent ==
    /\ ~initialTimer
    /\ ~watchTimeout
    /\ events = 0
    /\ builds = <<>>

\* C23 Build watch mode, mutual exclusion: at most one run of build() is
\* in progress at any time.
AtMostOneBuild ==
    Len(builds) <= 1

\* C24 Build watch mode, no self-triggering: there are never more runs of
\* build() than writes by the compiler; when the script has come to rest
\* after one write by the compiler, build() has run once; and no run of
\* build() works on code that build() wrote.
NoSelfTriggering ==
    /\ buildRuns <= compiles
    /\ (WatchQuiescent /\ compiles = 1) => buildRuns = 1
    /\ \A i \in 1 .. Len(builds) : ~builds[i].code.min

====
